---- MODULE Spec2Model ----
(***************************************************************************)
(* A model of the keyword-extraction-and-ranking pipeline of               *)
(* query_graph/Researcher.py and query_graph/main.py.                      *)
(*                                                                         *)
(* Each component of the pipeline is a group of variables with its own     *)
(* specification; a specification leaves the other groups idle.            *)
(*   Spec          Researcher.create_pages / top_k_similar_sentences       *)
(*   SpecContext   Page.get_sentence_content                               *)
(*   SpecKeywords  Parser.extract_keywords / get_sentence_index            *)
(*   SpecMask      the mean + std mask of main.pipeline                    *)
(*   SpecUrls      Researcher.fetch_urls                                   *)
(*   SpecSplit     Page.split_into_sentences                               *)
(*   SpecThreads   the threads of create_pages, the jobs of main.py        *)
(*                                                                         *)
(* External collaborators (the embedding model, scipy's cosine, the HTTP   *)
(* client, the search API, spaCy) are inputs: their results are drawn from *)
(* small sets that cover their documented ranges.                          *)
(***************************************************************************)
EXTENDS Integers, Sequences, FiniteSets, TLC

VARIABLES
    \* ---- Researcher.create_pages / top_k_similar_sentences
    pc,              \* position in the run: "create", "score", "done", "error"
    pages,           \* self.pages: url -> Page (a dict: a function on the urls inserted)
    pageOrder,       \* insertion order of self.pages (the dict's iteration order)
    k,               \* parameter k of top_k_similar_sentences
    context_window,  \* self.context_window
    pageIx,          \* the page the outer loop is at (index into pageOrder)
    position,        \* the sentence the inner loop is at
    sent,            \* the local sent (the Sentence built last)
    similarities,    \* the local similarities: bucket -> list of Sentence
    num_sentences,   \* the local num_sentences
    top_k,           \* the list returned
    fetched,         \* history: url -> what requests.get did for it
    \* ---- Page.get_sentence_content
    cpc, cn, cp, cw, cresult,
    \* ---- Parser.extract_keywords
    kpc,             \* "loop", "done", "error"
    threshold,       \* self.threshold, in tenths
    query_keywords,  \* list(query_doc.noun_chunks): the texts of the query phrases
    gpt_sentences,   \* list(gpt_doc.sents): the end offset of each answer sentence
    gpt_keywords,    \* list(gpt_doc.noun_chunks) as far as the loop has read it
    keywords,        \* the set of (query phrase text, answer phrase text)
    gpt_keyword_sentence_mapping,
    \* ---- the mask of main.pipeline
    mpc,                        \* "node", "masked"
    gpt_relevance_by_sentence,  \* node.gpt_relevance_by_sentence
    relevant_sentences,         \* node.relevant_sentences
    \* ---- Researcher.fetch_urls
    upc,             \* "queries", "urls", "done", "error"
    queries,         \* the search queries of self.queries not yet searched
    search_query,    \* the loop variable search_query
    results,         \* what is left of search.search_google()
    urls,            \* self.urls
    returned,        \* history: search query -> the list of urls its search returned
    \* ---- Page.split_into_sentences
    spc,             \* "call", "rewrite", "returned"
    stmt,            \* the statement of lines 305-325 that runs next
    tokens,          \* history: the words and marks the text was written from
    text,            \* the local text, a sequence of characters, as rewritten so far
    sentences,       \* the list returned
    \* ---- the threads of Researcher.create_pages, the jobs of get_sentences_and_pages
    apc,             \* position of the calling thread (see CreatePagesInit)
    url_list,        \* list(self.urls): the urls in the dict's order
    threads,         \* the local threads: the url each Thread was made for
    next_ix,         \* the index the start loop, the join loop or the dispatch is at
    tstate,          \* per url: how far its thread or job has run
    local_page,      \* per url: the local page of create_page
    self_pages,      \* self.pages as the threads share it: url -> Page
    stored,          \* history: the urls in the order pages[url] = page ran
    todo,            \* per url: sentences its job has still to append
    produced,        \* history: per url, the sentences its job made
    sentences_list   \* the manager list the jobs share

rankVars == <<pc, pages, pageOrder, k, context_window, pageIx, position, sent,
              similarities, num_sentences, top_k, fetched>>
ctxVars == <<cpc, cn, cp, cw, cresult>>
kwVars == <<kpc, threshold, query_keywords, gpt_sentences, gpt_keywords, keywords,
            gpt_keyword_sentence_mapping>>
maskVars == <<mpc, gpt_relevance_by_sentence, relevant_sentences>>
urlVars == <<upc, queries, search_query, results, urls, returned>>
splitVars == <<spc, stmt, tokens, text, sentences>>
thrVars == <<apc, url_list, threads, next_ix, tstate, local_page, self_pages, stored, todo,
             produced, sentences_list>>
vars == <<rankVars, ctxVars, kwVars, maskVars, urlVars, splitVars, thrVars>>

Min(a, b) == IF a <= b THEN a ELSE b
Max(a, b) == IF a >= b THEN a ELSE b

(***************************************************************************)
(* Bounds.                                                                 *)
(***************************************************************************)
Resolution == 2      \* the parameter resolution (the number of buckets)
Sub == 2             \* score steps told apart inside one bucket
MaxSentences == 2    \* sentences of one page
MaxK == 3            \* the parameter k ranges over 0..MaxK
MaxWindow == 1       \* context_window ranges over 0..MaxWindow
MaxN == 5            \* SpecContext: sentences of the page
MaxW == 3            \* SpecContext: context_window ranges over 0..MaxW
DocLen == 3          \* SpecKeywords: tokens of the answer text
MaxPhrases == 2      \* SpecKeywords: noun phrases of the answer text
MaxAnswer == 5       \* SpecMask: sentences of the answer
MaxResults == 3      \* SpecUrls: urls one search returns
MaxTokens == 2       \* SpecSplit: words of the text (beside the texts listed)

URLS == {"u1", "u2"}

\* A score is an integer number of steps of 1/(Resolution*Sub): Unit is 1.0.
Unit == Resolution * Sub

\* The values scipy's cosine distance is drawn from: its range is [0, 2].
\* They sit at the bucket boundaries, at 1.0 and at 2.0.
Scores == {0, 1, Sub, Unit - 1, Unit, 2 * Unit}

(***************************************************************************)
(* Page.get_sentence_content.  The sentences of a page are told apart by   *)
(* their positions 0..n-1; the result lists the positions joined.          *)
(***************************************************************************)
\* Python's lst[a:b] on a list of n items with 0 <= a: the positions a..min(b,n)-1.
Slice(n, a, b) == [i \in 1..Max(0, Min(b, n) - a) |-> a + i - 1]

PostEnd(n, p, w) == Min(n - 1, p + w + 1)

get_sentence_content(n, p, w) ==
    [ text |-> p,
      pre_context  |-> IF p > 0 /\ w > 0
                       THEN Slice(n, Max(0, p - w), p) ELSE << >>,
      post_context |-> IF p < n - 1 /\ w > 0
                       THEN Slice(n, p + 1, PostEnd(n, p, w)) ELSE << >> ]

NoContext == [text |-> 0, pre_context |-> << >>, post_context |-> << >>]

(***************************************************************************)
(* Page.__init__ and Page.get_webpage_content.  A fetch is what            *)
(* requests.get does: it raises, or answers with a status and a body.      *)
(* body is the text of the <p> elements: "" (none), "blank" (white space   *)
(* only) or "text".                                                        *)
(***************************************************************************)
Raised == [raises |-> TRUE, status |-> 0, body |-> ""]
Fetches == {Raised} \cup [raises : {FALSE}, status : {200, 404}, body : {"", "blank", "text"}]

get_webpage_content(fetch) ==
    IF fetch.raises THEN "None"
    ELSE IF fetch.status = 200 THEN fetch.body
    ELSE "None"

\* Python's truth value of self.content
Truthy(content) == content \notin {"None", ""}

\* Page(search_queries, url): n is the number of sentences split_into_sentences
\* finds in the content (0 for white space only).  Without content the Page
\* has no sentences attribute; the model keeps 0 there and never reads it.
NewPage(fetch, n) ==
    LET content == get_webpage_content(fetch)
    IN [content |-> content, sentences |-> IF Truthy(content) THEN n ELSE 0]

SentenceCounts(fetch) ==
    IF fetch.body = "text" THEN 1..MaxSentences ELSE {0}

(***************************************************************************)
(* Researcher.top_k_similar_sentences                                      *)
(***************************************************************************)
\* [""]*k: the placeholder the result list is filled with
Placeholder == [url |-> "", position |-> 0, context |-> NoContext, score |-> 0]

\* Sentence(sentence, context); score stands for its vector: the cosine
\* distance of the vector to the query vector.
Sentence(url, p, context, score) ==
    [url |-> url, position |-> p, context |-> context, score |-> score]

\* int(similarity*resolution)
BucketOf(score) == score \div Sub

Buckets == 0..(Resolution - 1)

\* for similarity in similarities: the buckets in list order
BucketOrderReversed == [i \in 1..Resolution |-> Resolution - i]
BucketOrder == [i \in 1..Resolution |-> i - 1]

\* for sentence in similarity: if count == k: break ...
RECURSIVE FillFromBucket(_, _, _, _)
FillFromBucket(out, count, bucket, i) ==
    IF i > Len(bucket) THEN [out |-> out, count |-> count]
    ELSE IF count = Len(out) THEN [out |-> out, count |-> count]
    ELSE FillFromBucket([out EXCEPT ![count + 1] = bucket[i]], count + 1, bucket, i + 1)

\* for similarity in similarities: ...
RECURSIVE FillFromBuckets(_, _, _, _)
FillFromBuckets(out, count, sims, b) ==
    IF b > Len(BucketOrder) THEN out
    ELSE LET r == FillFromBucket(out, count, sims[BucketOrder[b]], 1)
         IN FillFromBuckets(r.out, r.count, sims, b + 1)

SelectTopK(sims, kk, num) ==
    LET k2 == Min(kk, num)
    IN FillFromBuckets([i \in 1..k2 |-> Placeholder], 0, sims, 1)

RankInit ==
    /\ pc = "create"
    /\ pages = << >>
    /\ pageOrder = << >>
    /\ k \in 0..MaxK
    /\ context_window \in 0..MaxWindow
    /\ pageIx = 1
    /\ position = 0
    /\ sent = Placeholder
    /\ similarities = [b \in Buckets |-> << >>]
    /\ num_sentences = 0
    /\ top_k = << >>
    /\ fetched = << >>

RankIdle ==
    /\ pc = "idle"
    /\ pages = << >>
    /\ pageOrder = << >>
    /\ k = 0
    /\ context_window = 0
    /\ pageIx = 1
    /\ position = 0
    /\ sent = Placeholder
    /\ similarities = << >>
    /\ num_sentences = 0
    /\ top_k = << >>
    /\ fetched = << >>

\* create_page(search_queries, url, pages): page = Page(...); pages[url] = page
CreatePage(url) ==
    /\ pc = "create"
    /\ url \notin DOMAIN pages
    /\ \E fetch \in Fetches : \E n \in SentenceCounts(fetch) :
         /\ pages' = [u \in DOMAIN pages \cup {url} |->
                        IF u = url THEN NewPage(fetch, n) ELSE pages[u]]
         /\ fetched' = [u \in DOMAIN pages \cup {url} |->
                          IF u = url THEN fetch ELSE fetched[u]]
    /\ pageOrder' = Append(pageOrder, url)
    /\ UNCHANGED <<pc, k, context_window, pageIx, position, sent, similarities,
                   num_sentences, top_k>>

\* create_pages returns (every thread joined); top_k_similar_sentences starts
StartRanking ==
    /\ pc = "create"
    /\ DOMAIN pages = URLS
    /\ pc' = "score"
    /\ UNCHANGED <<pages, pageOrder, k, context_window, pageIx, position, sent,
                   similarities, num_sentences, top_k, fetched>>

\* one iteration of the inner loop (lines 88-92)
ScoreSentence ==
    /\ pc = "score"
    /\ pageIx <= Len(pageOrder)
    /\ LET url == pageOrder[pageIx]
           page == pages[url]
       IN /\ Truthy(page.content)
          /\ position < page.sentences
          /\ \E score \in Scores :
               LET s == Sentence(url, position,
                          get_sentence_content(page.sentences, position, context_window),
                          score)
               IN /\ sent' = s
                  /\ IF BucketOf(score) \in Buckets
                     THEN /\ similarities' =
                               [similarities EXCEPT ![BucketOf(score)] = Append(@, s)]
                          /\ num_sentences' = num_sentences + 1
                          /\ position' = position + 1
                          /\ pc' = pc
                     ELSE \* IndexError: list index out of range
                          /\ pc' = "error"
                          /\ UNCHANGED <<similarities, num_sentences, position>>
    /\ UNCHANGED <<pages, pageOrder, k, context_window, pageIx, top_k, fetched>>

\* the outer loop moves on: the page has no content, or its sentences are done
NextPage ==
    /\ pc = "score"
    /\ pageIx <= Len(pageOrder)
    /\ LET page == pages[pageOrder[pageIx]]
       IN ~Truthy(page.content) \/ position >= page.sentences
    /\ pageIx' = pageIx + 1
    /\ position' = 0
    /\ UNCHANGED <<pc, pages, pageOrder, k, context_window, sent, similarities,
                   num_sentences, top_k, fetched>>

\* lines 94-103
Select ==
    /\ pc = "score"
    /\ pageIx > Len(pageOrder)
    /\ top_k' = SelectTopK(similarities, k, num_sentences)
    /\ pc' = "done"
    /\ UNCHANGED <<pages, pageOrder, k, context_window, pageIx, position, sent,
                   similarities, num_sentences, fetched>>

(***************************************************************************)
(* SpecContext: one call of Page.get_sentence_content                      *)
(***************************************************************************)
CtxInit ==
    /\ cpc = "call"
    /\ cn \in 1..MaxN
    /\ cp \in 0..(cn - 1)
    /\ cw \in 0..MaxW
    /\ cresult = NoContext

CtxIdle ==
    /\ cpc = "idle"
    /\ cn = 1
    /\ cp = 0
    /\ cw = 0
    /\ cresult = NoContext

GetSentenceContent ==
    /\ cpc = "call"
    /\ cresult' = get_sentence_content(cn, cp, cw)
    /\ cpc' = "returned"
    /\ UNCHANGED <<cn, cp, cw>>

(***************************************************************************)
(* SpecKeywords: Parser.extract_keywords and Parser.get_sentence_index.    *)
(* spaCy is an input: the query's noun phrases, the answer's sentences     *)
(* (each by its end offset, the last one ending the text), the answer's    *)
(* noun phrases in document order (text, start and end offset) and, for    *)
(* each, its cosine distance to every query phrase, in tenths.             *)
(***************************************************************************)
QueryLists == {<< >>, <<"qa">>, <<"qa", "qb">>, <<"qa", "qa">>}
GptTexts == {"ga", "gb"}
\* distances at the default threshold, at 1.0 and above it
Distances == {4, 10, 15}
DefaultThreshold == 4
Thresholds == {DefaultThreshold, 10}

\* the lists of sentence ends: increasing, the last one the end of the text
SentenceLayouts ==
    { ends \in UNION {[1..n -> 1..DocLen] : n \in 1..DocLen} :
        /\ ends[Len(ends)] = DocLen
        /\ \A i \in 1..(Len(ends) - 1) : ends[i] < ends[i + 1] }

\* sentence.end >= phrase.end
EndReachesStrict(sentence_end, phrase_end) == sentence_end > phrase_end
EndReaches(sentence_end, phrase_end) == sentence_end >= phrase_end

\* get_sentence_index: the index (from 0) of the first sentence that reaches the
\* end of the phrase; Len(sentences) stands for the loop ending with index
\* unbound (UnboundLocalError).
RECURSIVE get_sentence_index(_, _, _)
get_sentence_index(phrase, sents, ix) ==
    IF ix >= Len(sents) THEN Len(sents)
    ELSE IF EndReaches(sents[ix + 1], phrase.end) THEN ix
    ELSE get_sentence_index(phrase, sents, ix + 1)

\* the inner loop (lines 187-193): most_similar is the position of the query
\* phrase (from 1), 0 for None
RECURSIVE ClosestQuery(_, _, _, _)
ClosestQuery(dists, i, max_similarity, most_similar) ==
    IF i > Len(dists) THEN [max_similarity |-> max_similarity, most_similar |-> most_similar]
    ELSE IF dists[i] < max_similarity
         THEN ClosestQuery(dists, i + 1, dists[i], i)
         ELSE ClosestQuery(dists, i + 1, max_similarity, most_similar)

\* max_similarity = 1
InitialMaxSimilarity == 10

Closest(phrase) == ClosestQuery(phrase.dists, 1, InitialMaxSimilarity, 0)

\* gpt_keyword_sentence_mapping[gpt_word.text] = position
SetItem(dict, key, value) ==
    [x \in DOMAIN dict \cup {key} |-> IF x = key THEN value ELSE dict[x]]

KwInit ==
    /\ kpc = "loop"
    /\ threshold \in Thresholds
    /\ query_keywords \in QueryLists
    /\ gpt_sentences \in SentenceLayouts
    /\ gpt_keywords = << >>
    /\ keywords = {}
    /\ gpt_keyword_sentence_mapping = << >>

KwIdle ==
    /\ kpc = "idle"
    /\ threshold = 0
    /\ query_keywords = << >>
    /\ gpt_sentences = << >>
    /\ gpt_keywords = << >>
    /\ keywords = {}
    /\ gpt_keyword_sentence_mapping = << >>

LastEnd == IF gpt_keywords = << >> THEN 0 ELSE gpt_keywords[Len(gpt_keywords)].end

\* one iteration of the outer loop (lines 186-199) on the next answer phrase
ProcessPhrase ==
    /\ kpc = "loop"
    /\ Len(gpt_keywords) < MaxPhrases
    /\ \E phrase_text \in GptTexts, start \in LastEnd..(DocLen - 1) :
       \E end \in (start + 1)..DocLen :
       \E dists \in [1..Len(query_keywords) -> Distances] :
         LET gpt_word == [text |-> phrase_text, start |-> start, end |-> end, dists |-> dists]
             c == Closest(gpt_word)
             position2 == get_sentence_index(gpt_word, gpt_sentences, 0)
         IN /\ gpt_keywords' = Append(gpt_keywords, gpt_word)
            /\ IF c.max_similarity <= threshold
               THEN IF c.most_similar = 0
                    THEN \* AttributeError: None has no attribute text
                         /\ kpc' = "error"
                         /\ UNCHANGED <<keywords, gpt_keyword_sentence_mapping>>
                    ELSE IF position2 >= Len(gpt_sentences)
                    THEN \* UnboundLocalError in get_sentence_index
                         /\ kpc' = "error"
                         /\ keywords' = keywords \cup
                               {<<query_keywords[c.most_similar], phrase_text>>}
                         /\ UNCHANGED gpt_keyword_sentence_mapping
                    ELSE /\ keywords' = keywords \cup
                               {<<query_keywords[c.most_similar], phrase_text>>}
                         /\ gpt_keyword_sentence_mapping' =
                               SetItem(gpt_keyword_sentence_mapping, phrase_text, position2)
                         /\ kpc' = kpc
               ELSE UNCHANGED <<kpc, keywords, gpt_keyword_sentence_mapping>>
    /\ UNCHANGED <<threshold, query_keywords, gpt_sentences>>

\* the answer has no further noun phrase: extract_keywords returns
ReturnKeywords ==
    /\ kpc = "loop"
    /\ kpc' = "done"
    /\ UNCHANGED <<threshold, query_keywords, gpt_sentences, gpt_keywords, keywords,
                   gpt_keyword_sentence_mapping>>

(***************************************************************************)
(* SpecMask: the loop body of main.pipeline (lines 82-85) for one node.    *)
(* The dot products are an input; the arithmetic is exact (the rounding of *)
(* the tensor's floats is left out).                                       *)
(***************************************************************************)
RelevanceValues == {0, 1, 2, 3, 4, 100}

RECURSIVE SumSeq(_)
SumSeq(seq) == IF seq = << >> THEN 0 ELSE Head(seq) + SumSeq(Tail(seq))

\* Tensor.std(): torch's default is the unbiased estimate, divisor n - 1
StdDivisorPopulation(n) == n
StdDivisor(n) == n - 1

\* n * (x - mean)
Deviation(rel, x) == Len(rel) * x - SumSeq(rel)

\* n^2 * sum of (x_i - mean)^2
SumSquaredDeviations(rel) ==
    SumSeq([i \in 1..Len(rel) |-> Deviation(rel, rel[i]) * Deviation(rel, rel[i])])

\* x > mean + std.  With divisor 0 (one element) std is NaN and the
\* comparison is False.
ExceedsMeanPlusStd(rel, x) ==
    LET div == StdDivisor(Len(rel))
        dev == Deviation(rel, x)
    IN IF div = 0 THEN FALSE
       ELSE dev > 0 /\ dev * dev * div > SumSquaredDeviations(rel)

MaskInit ==
    /\ mpc = "node"
    /\ gpt_relevance_by_sentence \in
          UNION {[1..n -> RelevanceValues] : n \in 1..MaxAnswer}
    /\ relevant_sentences = << >>

MaskIdle ==
    /\ mpc = "idle"
    /\ gpt_relevance_by_sentence = << >>
    /\ relevant_sentences = << >>

ComputeMask ==
    /\ mpc = "node"
    /\ relevant_sentences' =
          [i \in 1..Len(gpt_relevance_by_sentence) |->
              ExceedsMeanPlusStd(gpt_relevance_by_sentence, gpt_relevance_by_sentence[i])]
    /\ mpc' = "masked"
    /\ UNCHANGED gpt_relevance_by_sentence

(***************************************************************************)
(* SpecUrls: Researcher.fetch_urls.  A search returns a list of urls       *)
(* (search_google), or fails its status assertion.                         *)
(***************************************************************************)
SearchQueries == {"q1", "q2", "q3"}

SearchResults == UNION {[1..n -> URLS] : n \in 0..MaxResults}

\* self.urls[url].add(search_query)
AddQueryOverwrite(set, q) == {q}
AddQuery(set, q) == set \cup {q}

UrlsInit ==
    /\ upc = "queries"
    /\ queries \in SUBSET SearchQueries
    /\ search_query = ""
    /\ results = << >>
    /\ urls = << >>
    /\ returned = << >>

UrlsIdle ==
    /\ upc = "idle"
    /\ queries = {}
    /\ search_query = ""
    /\ results = << >>
    /\ urls = << >>
    /\ returned = << >>

\* for search_query in self.queries: search.search_google() returns
SearchGoogle(q) ==
    /\ upc = "queries"
    /\ q \in queries
    /\ \E res \in SearchResults :
         /\ results' = res
         /\ returned' = SetItem(returned, q, res)
    /\ search_query' = q
    /\ queries' = queries \ {q}
    /\ upc' = "urls"
    /\ UNCHANGED urls

\* the assert of search_google fails (a status outside 200..299)
SearchFails(q) ==
    /\ upc = "queries"
    /\ q \in queries
    /\ search_query' = q
    /\ upc' = "error"
    /\ UNCHANGED <<queries, results, urls, returned>>

\* one iteration of the inner loop (lines 63-67)
AddUrl ==
    /\ upc = "urls"
    /\ results # << >>
    /\ LET url == Head(results)
       IN urls' = IF url \notin DOMAIN urls
                  THEN SetItem(urls, url, {search_query})
                  ELSE SetItem(urls, url, AddQuery(urls[url], search_query))
    /\ results' = Tail(results)
    /\ UNCHANGED <<upc, queries, search_query, returned>>

\* the urls of this search are done
NextQuery ==
    /\ upc = "urls"
    /\ results = << >>
    /\ upc' = "queries"
    /\ UNCHANGED <<queries, search_query, results, urls, returned>>

\* fetch_urls returns
ReturnUrls ==
    /\ upc = "queries"
    /\ queries = {}
    /\ upc' = "done"
    /\ UNCHANGED <<queries, search_query, results, urls, returned>>

(***************************************************************************)
(* SpecSplit: Page.split_into_sentences.  The text is a sequence of        *)
(* characters; the markers "<prd>" and "<stop>" are one symbol each (no    *)
(* pattern of the function matches a part of a marker).  A regular         *)
(* expression is a list of patterns tried in order, a pattern a list of    *)
(* elements, an element a list of alternatives tried in order, an          *)
(* alternative a list of character sets.  An element is replaced by what   *)
(* it matched (same) or by rep.                                            *)
(***************************************************************************)
PRD == "<prd>"
STOP == "<stop>"
Upper == {"A", "B", "C", "D", "E", "F", "G", "H", "I", "J", "K", "L", "M", "N", "O", "P", "Q", "R", "S", "T", "U", "V", "W", "X", "Y", "Z"}
Lower == {"a", "b", "c", "d", "e", "f", "g", "h", "i", "j", "k", "l", "m", "n", "o", "p", "q", "r", "s", "t", "u", "v", "w", "x", "y", "z"}
Letters == Upper \cup Lower
Digits == {"0", "1", "2", "3", "4", "5", "6", "7", "8", "9"}
Whitespace == {" ", "\n"}
RDQuo == "rdquo"     \* the character U+201D
DQuo == "dquo"       \* the character U+0022

C(chars) == [i \in DOMAIN chars |-> {chars[i]}]
One(set) == << <<set>> >>
Keep(alts) == [alts |-> alts, same |-> TRUE, rep |-> << >>]
Put(alts, rep) == [alts |-> alts, same |-> FALSE, rep |-> rep]
Dot == One({"."})

AltMatches(txt, i, alt) ==
    /\ i + Len(alt) - 1 <= Len(txt)
    /\ \A j \in 1..Len(alt) : txt[i + j - 1] \in alt[j]

NoMatch == [ok |-> FALSE, end |-> 0, out |-> << >>]

\* the match of the elements e.. of a pattern at position i, with backtracking
RECURSIVE MatchElems(_, _, _, _)
RECURSIVE TryAlts(_, _, _, _, _)
MatchElems(txt, i, elems, e) ==
    IF e > Len(elems) THEN [ok |-> TRUE, end |-> i, out |-> << >>]
    ELSE TryAlts(txt, i, elems, e, 1)
TryAlts(txt, i, elems, e, a) ==
    IF a > Len(elems[e].alts) THEN NoMatch
    ELSE LET alt == elems[e].alts[a]
         IN IF AltMatches(txt, i, alt)
            THEN LET r == MatchElems(txt, i + Len(alt), elems, e + 1)
                 IN IF r.ok
                    THEN [ok |-> TRUE, end |-> r.end,
                          out |-> (IF elems[e].same
                                   THEN SubSeq(txt, i, i + Len(alt) - 1)
                                   ELSE elems[e].rep) \o r.out]
                    ELSE TryAlts(txt, i, elems, e, a + 1)
            ELSE TryAlts(txt, i, elems, e, a + 1)

RECURSIVE FirstMatch(_, _, _, _)
FirstMatch(txt, i, regex, p) ==
    IF p > Len(regex) THEN NoMatch
    ELSE LET m == MatchElems(txt, i, regex[p], 1)
         IN IF m.ok THEN m ELSE FirstMatch(txt, i, regex, p + 1)

\* re.sub(regex, replacement, txt), and str.replace: the matches left to
\* right, none overlapping another.  From position i on: the text up to the
\* first position that has a match is kept, the match is replaced, and the
\* scan goes on behind it.
RECURSIVE SubFrom(_, _, _)
SubFrom(txt, i, regex) ==
    LET starts == {j \in i..Len(txt) : FirstMatch(txt, j, regex, 1).ok}
    IN IF starts = {} THEN SubSeq(txt, i, Len(txt))
       ELSE LET j == CHOOSE x \in starts : \A y \in starts : x <= y
                m == FirstMatch(txt, j, regex, 1)
            IN SubSeq(txt, i, j - 1) \o m.out \o SubFrom(txt, m.end, regex)
ReSub(regex, txt) == SubFrom(txt, 1, regex)

Prefixes == <<C(<<"M", "r">>), C(<<"S", "t">>), C(<<"M", "r", "s">>), C(<<"M", "s">>), C(<<"D", "r">>)>>
Suffixes == <<C(<<"I", "n", "c">>), C(<<"L", "t", "d">>), C(<<"J", "r">>), C(<<"S", "r">>), C(<<"C", "o">>)>>
Starters ==
    <<C(<<"M", "r">>),
       C(<<"M", "r", "s">>),
       C(<<"M", "s">>),
       C(<<"D", "r">>),
       C(<<"P", "r", "o", "f">>),
       C(<<"C", "a", "p", "t">>),
       C(<<"C", "p", "t">>),
       C(<<"L", "t">>),
       C(<<"H", "e">>) \o <<Whitespace>>,
       C(<<"S", "h", "e">>) \o <<Whitespace>>,
       C(<<"I", "t">>) \o <<Whitespace>>,
       C(<<"T", "h", "e", "y">>) \o <<Whitespace>>,
       C(<<"T", "h", "e", "i", "r">>) \o <<Whitespace>>,
       C(<<"O", "u", "r">>) \o <<Whitespace>>,
       C(<<"W", "e">>) \o <<Whitespace>>,
       C(<<"B", "u", "t">>) \o <<Whitespace>>,
       C(<<"H", "o", "w", "e", "v", "e", "r">>) \o <<Whitespace>>,
       C(<<"T", "h", "a", "t">>) \o <<Whitespace>>,
       C(<<"T", "h", "i", "s">>) \o <<Whitespace>>,
       C(<<"W", "h", "e", "r", "e", "v", "e", "r">>)>>
Websites == <<C(<<"c", "o", "m">>), C(<<"n", "e", "t">>), C(<<"o", "r", "g">>), C(<<"i", "o">>), C(<<"g", "o", "v">>), C(<<"e", "d", "u">>), C(<<"m", "e">>)>>

\* line 306: prefixes, the titles with their period
SubPrefixes == << <<Keep(Prefixes), Put(Dot, <<PRD>>)>> >>
\* line 307
SubWebsites == << <<Put(Dot, <<PRD>>), Keep(Websites)>> >>
\* line 308
SubDigits == << <<Keep(One(Digits)), Put(Dot, <<PRD>>), Keep(One(Digits))>> >>
\* line 310
SubPhD == << <<Keep(<<C(<<"P", "h">>)>>), Put(Dot, <<PRD>>),
               Keep(<<C(<<"D">>)>>), Put(Dot, <<PRD>>)>> >>
\* line 311
SubSingleLetter ==
    << <<Put(One(Whitespace), <<" ">>), Keep(One(Letters)), Put(Dot, <<PRD>>),
         Keep(One({" "}))>> >>
\* line 312: the acronym of three letters is tried before that of two
SubAcronymStarter ==
    << <<Keep(One(Upper)), Keep(Dot), Keep(One(Upper)), Keep(Dot),
         Keep(One(Upper)), Keep(Dot), Put(One({" "}), <<STOP, " ">>), Keep(Starters)>>,
       <<Keep(One(Upper)), Keep(Dot), Keep(One(Upper)), Keep(Dot),
         Put(One({" "}), <<STOP, " ">>), Keep(Starters)>> >>
\* line 313
SubThreeLetters ==
    << <<Keep(One(Letters)), Put(Dot, <<PRD>>), Keep(One(Letters)), Put(Dot, <<PRD>>),
         Keep(One(Letters)), Put(Dot, <<PRD>>)>> >>
\* line 314
SubTwoLetters ==
    << <<Keep(One(Letters)), Put(Dot, <<PRD>>), Keep(One(Letters)), Put(Dot, <<PRD>>)>> >>
\* line 315
SubSuffixStarter ==
    << <<Keep(One({" "})), Keep(Suffixes), Put(<<C(<<".", " ">>)>>, <<STOP, " ">>),
         Keep(Starters)>> >>
\* line 316
SubSuffix == << <<Keep(One({" "})), Keep(Suffixes), Put(Dot, <<PRD>>)>> >>
\* line 317
SubLetter == << <<Keep(One({" "})), Keep(One(Letters)), Put(Dot, <<PRD>>)>> >>

\* str.replace(old, new)
Replace(old, new) == << <<Put(<<C(old)>>, new)>> >>

\* line 309: a run of two or more periods becomes as many <prd> and a <stop>
RECURSIVE DotRun(_, _)
DotRun(txt, i) == IF i <= Len(txt) /\ txt[i] = "." THEN 1 + DotRun(txt, i + 1) ELSE 0
RECURSIVE SubMultipleDots(_, _)
SubMultipleDots(txt, i) ==
    LET starts == {j \in i..Len(txt) : DotRun(txt, j) >= 2}
    IN IF starts = {} THEN SubSeq(txt, i, Len(txt))
       ELSE LET j == CHOOSE x \in starts : \A y \in starts : x <= y
                n == DotRun(txt, j)
            IN SubSeq(txt, i, j - 1) \o [x \in 1..n |-> PRD] \o <<STOP>>
                 \o SubMultipleDots(txt, j + n)

\* text.split("<stop>")
RECURSIVE SplitAtStop(_, _)
SplitAtStop(txt, cur) ==
    LET stops == {j \in 1..Len(txt) : txt[j] = STOP}
    IN IF stops = {} THEN <<cur \o txt>>
       ELSE LET j == CHOOSE x \in stops : \A y \in stops : x <= y
            IN <<cur \o SubSeq(txt, 1, j - 1)>>
                 \o SplitAtStop(SubSeq(txt, j + 1, Len(txt)), << >>)

\* s.strip()
RECURSIVE LStrip(_)
LStrip(t) == IF t # << >> /\ Head(t) \in Whitespace THEN LStrip(Tail(t)) ELSE t
RECURSIVE RStrip(_)
RStrip(t) ==
    IF t # << >> /\ t[Len(t)] \in Whitespace THEN RStrip(SubSeq(t, 1, Len(t) - 1)) ELSE t
Strip(t) == RStrip(LStrip(t))

\* line 304
Pad(txt) == <<" ">> \o txt \o <<" ", " ">>

\* lines 305-325: the statements text = re.sub(...) and text = text.replace(...)
\* in order, each by the expression it substitutes (line 309 is SubMultipleDots).
\* Lines 305-317 protect the periods that end no sentence; lines 318-321 move
\* the marks before a closing quote behind it; lines 322-324 give every mark
\* left a <stop>; line 325 brings the protected periods back.
Statements ==
    << [line |-> 305, regex |-> Replace(<<"\n">>, <<" ">>)],
       [line |-> 306, regex |-> SubPrefixes],
       [line |-> 307, regex |-> SubWebsites],
       [line |-> 308, regex |-> SubDigits],
       [line |-> 309, regex |-> << >>],
       [line |-> 310, regex |-> SubPhD],
       [line |-> 311, regex |-> SubSingleLetter],
       [line |-> 312, regex |-> SubAcronymStarter],
       [line |-> 313, regex |-> SubThreeLetters],
       [line |-> 314, regex |-> SubTwoLetters],
       [line |-> 315, regex |-> SubSuffixStarter],
       [line |-> 316, regex |-> SubSuffix],
       [line |-> 317, regex |-> SubLetter],
       [line |-> 318, regex |-> Replace(<<".", RDQuo>>, <<RDQuo, ".">>)],
       [line |-> 319, regex |-> Replace(<<".", DQuo>>, <<DQuo, ".">>)],
       [line |-> 320, regex |-> Replace(<<"!", DQuo>>, <<DQuo, "!">>)],
       [line |-> 321, regex |-> Replace(<<"?", DQuo>>, <<DQuo, "?">>)],
       [line |-> 322, regex |-> Replace(<<".">>, <<".", STOP>>)],
       [line |-> 323, regex |-> Replace(<<"?">>, <<"?", STOP>>)],
       [line |-> 324, regex |-> Replace(<<"!">>, <<"!", STOP>>)],
       [line |-> 325, regex |-> Replace(<<PRD>>, <<".">>)] >>

\* the statement of Statements[n] applied to the text
Rewritten(n, txt) ==
    IF Statements[n].line = 309 THEN SubMultipleDots(txt, 1)
    ELSE ReSub(Statements[n].regex, txt)

\* lines 326-329
SplitAndStrip(txt) ==
    LET parts == SplitAtStop(txt, << >>)
        stripped == [i \in 1..Len(parts) |-> Strip(parts[i])]
    IN IF stripped # << >> /\ stripped[Len(stripped)] = << >>
       THEN SubSeq(stripped, 1, Len(stripped) - 1)
       ELSE stripped

\* The texts: words, each with a mark after it or none, a space between two.
Words == {<<"D", "r">>, <<"M", "r", "s">>, <<"I">>, <<"H", "e">>, <<"w", "o", "n">>, <<"A", "T", "M", "s">>, <<"I", "n", "c">>}
Marks == {"", ".", "!", "?"}
Token(word, mark) == [word |-> word, mark |-> mark]
Tokens == [word : Words, mark : Marks]

\* "Dr. Smith went to Washington. He won."
ExampleTokens ==
    << Token(<<"D", "r">>, "."), Token(<<"S", "m", "i", "t", "h">>, ""),
       Token(<<"w", "e", "n", "t">>, ""), Token(<<"t", "o">>, ""),
       Token(<<"W", "a", "s", "h", "i", "n", "g", "t", "o", "n">>, "."),
       Token(<<"H", "e">>, ""), Token(<<"w", "o", "n">>, ".") >>

TokenLists == UNION {[1..n -> Tokens] : n \in 0..MaxTokens} \cup {ExampleTokens}

Written(token) == token.word \o (IF token.mark = "" THEN << >> ELSE <<token.mark>>)

\* the tokens from..to written with a space between two
RECURSIVE JoinTokens(_, _, _)
JoinTokens(toks, from, to) ==
    IF from > to THEN << >>
    ELSE IF from = to THEN Written(toks[from])
    ELSE Written(toks[from]) \o <<" ">> \o JoinTokens(toks, from + 1, to)

SplitInit ==
    /\ spc = "call"
    /\ stmt = 0
    /\ tokens \in TokenLists
    /\ text = JoinTokens(tokens, 1, Len(tokens))
    /\ sentences = << >>

SplitIdle ==
    /\ spc = "idle"
    /\ stmt = 0
    /\ tokens = << >>
    /\ text = << >>
    /\ sentences = << >>

\* line 304: text = " " + text + "  "
PadText ==
    /\ spc = "call"
    /\ text' = Pad(text)
    /\ spc' = "rewrite"
    /\ stmt' = 1
    /\ UNCHANGED <<tokens, sentences>>

\* lines 305-325: the next statement rewrites text
RewriteText ==
    /\ spc = "rewrite"
    /\ stmt <= Len(Statements)
    /\ text' = Rewritten(stmt, text)
    /\ stmt' = stmt + 1
    /\ UNCHANGED <<spc, tokens, sentences>>

\* lines 326-329: the function returns
SplitIntoSentences ==
    /\ spc = "rewrite"
    /\ stmt > Len(Statements)
    /\ sentences' = SplitAndStrip(text)
    /\ spc' = "returned"
    /\ UNCHANGED <<stmt, tokens, text>>

(***************************************************************************)
(* SpecThreads: the per-url threads of Researcher.create_pages and the     *)
(* per-url jobs of get_sentences_and_pages.                                *)
(*                                                                         *)
(* The calling thread is at apc:                                           *)
(*   "threads"     the loop of lines 75-77 (one Thread per url)            *)
(*   "start"       the loop of lines 78-79                                 *)
(*   "join"        the loop of lines 80-81                                 *)
(*   "returned"    create_pages has returned                               *)
(*   "top_k"       top_k_similar_sentences reads self.pages                *)
(*   "parallel"    main.py line 53: the Parallel call is running           *)
(*   "sequential"  main.py lines 55-56: the loop runs the jobs in turn     *)
(*   "sort"        main.py line 62 is about to read sentences_list         *)
(*   "sorted"      get_sentences_and_pages has returned                    *)
(* A thread or job is one step of the interleaving per statement that      *)
(* touches shared state.  pages[url] = page and sentence_list.append are   *)
(* single steps: a dict store is one bytecode under the interpreter lock   *)
(* (one locked operation in a free-threaded build), and an append to a     *)
(* manager list is one request served by the manager process.              *)
(***************************************************************************)
MaxThreads == 3        \* urls of self.urls when create_pages runs
MaxJobs == 2           \* urls of researcher.urls when get_sentences_and_pages runs
MaxJobSentences == 1   \* sentences one job appends

\* Parallel(n_jobs=4, backend="loky")
n_jobs == 4

\* The relevance of a sentence to the answer, as it orders the sort
Relevances == {0, 1}

\* Page(search_queries, url) as create_page builds it
ThreadPage(url, fetch, n) ==
    [url |-> url, content |-> NewPage(fetch, n).content,
     sentences |-> NewPage(fetch, n).sentences]

\* thread.join() returns: the thread has ended
\* (JoinedNoWait: a join that returns once the thread has been started)
JoinedNoWait(i) == tstate[i] \in {"running", "built", "done"}
Joined(i) == tstate[i] = "done"

\* how many jobs run at a time
Workers == IF apc = "parallel" THEN n_jobs ELSE 1

Running == {i \in DOMAIN tstate : tstate[i] \in {"running", "appending"}}

\* the call of line 53, or the loop of lines 55-56, is over: every job has run
JobsFinished ==
    /\ next_ix > Len(url_list)
    /\ \A i \in DOMAIN tstate : tstate[i] = "done"

\* key = get_relevance: -sentence.relevance; list.sort is stable
SortByRelevance(list) ==
    SelectSeq(list, LAMBDA s : s.relevance = 1) \o SelectSeq(list, LAMBDA s : s.relevance = 0)

ThrInit ==
    /\ apc \in {"threads", "parallel", "sequential"}
    /\ \E n \in 0..(IF apc = "threads" THEN MaxThreads ELSE MaxJobs) :
         /\ url_list = [i \in 1..n |-> i]
         /\ tstate = [i \in 1..n |-> IF apc = "threads" THEN "none" ELSE "queued"]
         /\ local_page = [i \in 1..n |-> "none"]
         /\ todo = [i \in 1..n |-> 0]
         /\ produced = [i \in 1..n |-> 0]
    /\ threads = << >>
    /\ next_ix = 1
    /\ self_pages = << >>
    /\ stored = << >>
    /\ sentences_list = << >>

ThrIdle ==
    /\ apc = "idle"
    /\ url_list = << >>
    /\ threads = << >>
    /\ next_ix = 1
    /\ tstate = << >>
    /\ local_page = << >>
    /\ self_pages = << >>
    /\ stored = << >>
    /\ todo = << >>
    /\ produced = << >>
    /\ sentences_list = << >>

\* lines 75-77: threads.append(threading.Thread(target=create_page, ...))
MakeThread ==
    /\ apc = "threads"
    /\ next_ix <= Len(url_list)
    /\ threads' = Append(threads, url_list[next_ix])
    /\ tstate' = [tstate EXCEPT ![next_ix] = "new"]
    /\ next_ix' = next_ix + 1
    /\ UNCHANGED <<apc, url_list, local_page, self_pages, stored, todo, produced,
                   sentences_list>>

\* the loop of lines 75-77 ends
ThreadsMade ==
    /\ apc = "threads"
    /\ next_ix > Len(url_list)
    /\ apc' = "start"
    /\ next_ix' = 1
    /\ UNCHANGED <<url_list, threads, tstate, local_page, self_pages, stored, todo,
                   produced, sentences_list>>

\* lines 78-79: thread.start()
StartThread ==
    /\ apc = "start"
    /\ next_ix <= Len(threads)
    /\ tstate' = [tstate EXCEPT ![next_ix] = "running"]
    /\ next_ix' = next_ix + 1
    /\ UNCHANGED <<apc, url_list, threads, local_page, self_pages, stored, todo,
                   produced, sentences_list>>

\* the loop of lines 78-79 ends
ThreadsStarted ==
    /\ apc = "start"
    /\ next_ix > Len(threads)
    /\ apc' = "join"
    /\ next_ix' = 1
    /\ UNCHANGED <<url_list, threads, tstate, local_page, self_pages, stored, todo,
                   produced, sentences_list>>

\* lines 80-81: thread.join() blocks until the thread has ended
JoinThread ==
    /\ apc = "join"
    /\ next_ix <= Len(threads)
    /\ Joined(next_ix)
    /\ next_ix' = next_ix + 1
    /\ UNCHANGED <<apc, url_list, threads, tstate, local_page, self_pages, stored,
                   todo, produced, sentences_list>>

\* the loop of lines 80-81 ends: create_pages returns
CreatePagesReturns ==
    /\ apc = "join"
    /\ next_ix > Len(threads)
    /\ apc' = "returned"
    /\ UNCHANGED <<url_list, threads, next_ix, tstate, local_page, self_pages, stored,
                   todo, produced, sentences_list>>

\* the thread of threads[i], line 71: page = Page(search_queries, url)
BuildPage(i) ==
    /\ i \in DOMAIN tstate
    /\ tstate[i] = "running"
    /\ apc \in {"start", "join", "returned", "top_k"}
    /\ \E fetch \in Fetches : \E n \in SentenceCounts(fetch) :
         local_page' = [local_page EXCEPT ![i] = ThreadPage(threads[i], fetch, n)]
    /\ tstate' = [tstate EXCEPT ![i] = "built"]
    /\ UNCHANGED <<apc, url_list, threads, next_ix, self_pages, stored, todo, produced,
                   sentences_list>>

\* the thread of threads[i], line 72: pages[url] = page; the thread ends
StorePage(i) ==
    /\ i \in DOMAIN tstate
    /\ tstate[i] = "built"
    /\ self_pages' = SetItem(self_pages, threads[i], local_page[i])
    /\ stored' = Append(stored, threads[i])
    /\ tstate' = [tstate EXCEPT ![i] = "done"]
    /\ UNCHANGED <<apc, url_list, threads, next_ix, local_page, todo, produced,
                   sentences_list>>

\* a caller of the constructed Researcher runs top_k_similar_sentences:
\* line 86 starts to read self.pages
TopKStarts ==
    /\ apc = "returned"
    /\ apc' = "top_k"
    /\ UNCHANGED <<url_list, threads, next_ix, tstate, local_page, self_pages, stored,
                   todo, produced, sentences_list>>

\* main.py line 53 or 56: the next url's job is handed to a free worker
DispatchJob ==
    /\ apc \in {"parallel", "sequential"}
    /\ next_ix <= Len(url_list)
    /\ Cardinality(Running) < Workers
    /\ tstate' = [tstate EXCEPT ![next_ix] = "running"]
    /\ next_ix' = next_ix + 1
    /\ UNCHANGED <<apc, url_list, threads, local_page, self_pages, stored, todo,
                   produced, sentences_list>>

\* researcher.create_pages_and_sentences(search_queries, url, sentence_list, model):
\* the job fetches the page, splits it and embeds its sentences
create_pages_and_sentences(i) ==
    /\ i \in DOMAIN tstate
    /\ tstate[i] = "running"
    /\ apc \in {"parallel", "sequential"}
    /\ \E n \in 0..MaxJobSentences :
         /\ produced' = [produced EXCEPT ![i] = n]
         /\ todo' = [todo EXCEPT ![i] = n]
    /\ tstate' = [tstate EXCEPT ![i] = "appending"]
    /\ UNCHANGED <<apc, url_list, threads, next_ix, local_page, self_pages, stored,
                   sentences_list>>

\* ... and appends each Sentence to the shared list
AppendSentence(i) ==
    /\ i \in DOMAIN tstate
    /\ tstate[i] = "appending"
    /\ todo[i] > 0
    /\ \E r \in Relevances :
         sentences_list' = Append(sentences_list,
                                  [url |-> url_list[i],
                                   position |-> produced[i] - todo[i],
                                   relevance |-> r])
    /\ todo' = [todo EXCEPT ![i] = @ - 1]
    /\ UNCHANGED <<apc, url_list, threads, next_ix, tstate, local_page, self_pages,
                   stored, produced>>

\* ... and returns
JobReturns(i) ==
    /\ i \in DOMAIN tstate
    /\ tstate[i] = "appending"
    /\ todo[i] = 0
    /\ tstate' = [tstate EXCEPT ![i] = "done"]
    /\ UNCHANGED <<apc, url_list, threads, next_ix, local_page, self_pages, stored,
                   todo, produced, sentences_list>>

\* main.py line 53 (the Parallel call returns) or lines 55-56 (the loop ends)
JobsReturn ==
    /\ apc \in {"parallel", "sequential"}
    /\ JobsFinished
    /\ apc' = "sort"
    /\ UNCHANGED <<url_list, threads, next_ix, tstate, local_page, self_pages, stored,
                   todo, produced, sentences_list>>

\* main.py lines 62-63: sentences_list.sort(key = get_relevance);
\* researcher.nodes = sentences_list[:min(researcher.num_nodes, len(sentences_list))]
\* (the slice is a copy: it leaves the list as sorted)
SortSentences ==
    /\ apc = "sort"
    /\ sentences_list' = SortByRelevance(sentences_list)
    /\ apc' = "sorted"
    /\ UNCHANGED <<url_list, threads, next_ix, tstate, local_page, self_pages, stored,
                   todo, produced>>

(***************************************************************************)
(* Specifications                                                          *)
(***************************************************************************)
Init == RankInit /\ CtxIdle /\ KwIdle /\ MaskIdle /\ UrlsIdle /\ SplitIdle /\ ThrIdle

Next ==
    \/ (\E url \in URLS : CreatePage(url)) /\ UNCHANGED <<ctxVars, kwVars, maskVars, urlVars, splitVars, thrVars>>
    \/ StartRanking /\ UNCHANGED <<ctxVars, kwVars, maskVars, urlVars, splitVars, thrVars>>
    \/ ScoreSentence /\ UNCHANGED <<ctxVars, kwVars, maskVars, urlVars, splitVars, thrVars>>
    \/ NextPage /\ UNCHANGED <<ctxVars, kwVars, maskVars, urlVars, splitVars, thrVars>>
    \/ Select /\ UNCHANGED <<ctxVars, kwVars, maskVars, urlVars, splitVars, thrVars>>

Spec == Init /\ [][Next]_vars

InitContext == CtxInit /\ RankIdle /\ KwIdle /\ MaskIdle /\ UrlsIdle /\ SplitIdle /\ ThrIdle
NextContext == GetSentenceContent /\ UNCHANGED <<rankVars, kwVars, maskVars, urlVars, splitVars, thrVars>>
SpecContext == InitContext /\ [][NextContext]_vars

InitKeywords == KwInit /\ RankIdle /\ CtxIdle /\ MaskIdle /\ UrlsIdle /\ SplitIdle /\ ThrIdle
NextKeywords ==
    \/ ProcessPhrase /\ UNCHANGED <<rankVars, ctxVars, maskVars, urlVars, splitVars, thrVars>>
    \/ ReturnKeywords /\ UNCHANGED <<rankVars, ctxVars, maskVars, urlVars, splitVars, thrVars>>
SpecKeywords == InitKeywords /\ [][NextKeywords]_vars

InitMask == MaskInit /\ RankIdle /\ CtxIdle /\ KwIdle /\ UrlsIdle /\ SplitIdle /\ ThrIdle
NextMask == ComputeMask /\ UNCHANGED <<rankVars, ctxVars, kwVars, urlVars, splitVars, thrVars>>
SpecMask == InitMask /\ [][NextMask]_vars

InitUrls == UrlsInit /\ RankIdle /\ CtxIdle /\ KwIdle /\ MaskIdle /\ SplitIdle /\ ThrIdle
NextUrls ==
    \/ (\E q \in SearchQueries : SearchGoogle(q)) /\ UNCHANGED <<rankVars, ctxVars, kwVars, maskVars, splitVars, thrVars>>
    \/ (\E q \in SearchQueries : SearchFails(q)) /\ UNCHANGED <<rankVars, ctxVars, kwVars, maskVars, splitVars, thrVars>>
    \/ AddUrl /\ UNCHANGED <<rankVars, ctxVars, kwVars, maskVars, splitVars, thrVars>>
    \/ NextQuery /\ UNCHANGED <<rankVars, ctxVars, kwVars, maskVars, splitVars, thrVars>>
    \/ ReturnUrls /\ UNCHANGED <<rankVars, ctxVars, kwVars, maskVars, splitVars, thrVars>>
SpecUrls == InitUrls /\ [][NextUrls]_vars

InitSplit == SplitInit /\ RankIdle /\ CtxIdle /\ KwIdle /\ MaskIdle /\ UrlsIdle /\ ThrIdle
NextSplit ==
    \/ PadText /\ UNCHANGED <<rankVars, ctxVars, kwVars, maskVars, urlVars, thrVars>>
    \/ RewriteText /\ UNCHANGED <<rankVars, ctxVars, kwVars, maskVars, urlVars, thrVars>>
    \/ SplitIntoSentences /\ UNCHANGED <<rankVars, ctxVars, kwVars, maskVars, urlVars, thrVars>>
SpecSplit == InitSplit /\ [][NextSplit]_vars

InitThreads == ThrInit /\ RankIdle /\ CtxIdle /\ KwIdle /\ MaskIdle /\ UrlsIdle /\ SplitIdle
NextThreads ==
    \/ MakeThread /\ UNCHANGED <<rankVars, ctxVars, kwVars, maskVars, urlVars, splitVars>>
    \/ ThreadsMade /\ UNCHANGED <<rankVars, ctxVars, kwVars, maskVars, urlVars, splitVars>>
    \/ StartThread /\ UNCHANGED <<rankVars, ctxVars, kwVars, maskVars, urlVars, splitVars>>
    \/ ThreadsStarted /\ UNCHANGED <<rankVars, ctxVars, kwVars, maskVars, urlVars, splitVars>>
    \/ JoinThread /\ UNCHANGED <<rankVars, ctxVars, kwVars, maskVars, urlVars, splitVars>>
    \/ CreatePagesReturns /\ UNCHANGED <<rankVars, ctxVars, kwVars, maskVars, urlVars, splitVars>>
    \/ (\E i \in 1..MaxThreads : BuildPage(i)) /\ UNCHANGED <<rankVars, ctxVars, kwVars, maskVars, urlVars, splitVars>>
    \/ (\E i \in 1..MaxThreads : StorePage(i)) /\ UNCHANGED <<rankVars, ctxVars, kwVars, maskVars, urlVars, splitVars>>
    \/ TopKStarts /\ UNCHANGED <<rankVars, ctxVars, kwVars, maskVars, urlVars, splitVars>>
    \/ DispatchJob /\ UNCHANGED <<rankVars, ctxVars, kwVars, maskVars, urlVars, splitVars>>
    \/ (\E i \in 1..MaxJobs : create_pages_and_sentences(i)) /\ UNCHANGED <<rankVars, ctxVars, kwVars, maskVars, urlVars, splitVars>>
    \/ (\E i \in 1..MaxJobs : AppendSentence(i)) /\ UNCHANGED <<rankVars, ctxVars, kwVars, maskVars, urlVars, splitVars>>
    \/ (\E i \in 1..MaxJobs : JobReturns(i)) /\ UNCHANGED <<rankVars, ctxVars, kwVars, maskVars, urlVars, splitVars>>
    \/ JobsReturn /\ UNCHANGED <<rankVars, ctxVars, kwVars, maskVars, urlVars, splitVars>>
    \/ SortSentences /\ UNCHANGED <<rankVars, ctxVars, kwVars, maskVars, urlVars, splitVars>>
SpecThreads == InitThreads /\ [][NextThreads]_vars

(***************************************************************************)
(* Properties of the ranking (Spec)                                        *)
(***************************************************************************)
\* 1 - cosine_distance, in score steps
Similarity(s) == Unit - s.score

Range(seq) == {seq[i] : i \in 1..Len(seq)}

\* every Sentence the scoring loop has put into a bucket
Inserted == UNION {Range(similarities[b]) : b \in DOMAIN similarities}

\* the urls whose page has content, and their sentences
ContentUrls == {u \in DOMAIN pages : Truthy(pages[u].content)}
AllSentences == {<<u, p>> : u \in ContentUrls, p \in 0..(MaxSentences - 1)}
                  \cap {up \in URLS \X Nat : up[2] < pages[up[1]].sentences}

FetchFailed(fetch) == fetch.raises \/ fetch.status # 200

Returned == pc = "done"
Ended == pc \in {"done", "error"}

\* C1: in the list returned, an item that comes before another is at least as
\* similar to the query (1 - cosine distance), up to one bucket width.
C1_RankedNonIncreasing ==
    Returned =>
        \A i, j \in 1..Len(top_k) :
            i < j => Similarity(top_k[i]) >= Similarity(top_k[j]) - Sub

\* C1 witness: a list returned that spans two buckets and holds, inside one
\* bucket, a pair in the reverse order of similarity.
C1_Witness ==
    /\ Returned
    /\ \E i, j \in 1..Len(top_k) :
         i < j /\ BucketOf(top_k[i].score) < BucketOf(top_k[j].score)
    /\ \E i, j \in 1..Len(top_k) :
         i < j /\ Similarity(top_k[i]) < Similarity(top_k[j])

\* C2: every score lies in [0,1] and its bucket index is one of the
\* resolution buckets, so that no insertion fails.
C2_ScoreInUnitRange ==
    /\ pc # "error"
    /\ sent # Placeholder =>
         /\ sent.score \in 0..Unit
         /\ BucketOf(sent.score) \in Buckets

\* C3: the selection returns exactly min(k, n) items, n the number of
\* sentences on the pages with content, each an inserted Sentence, none twice.
C3_ReturnsMinKN ==
    Ended =>
        /\ Returned
        /\ Len(top_k) = Min(k, Cardinality(AllSentences))
        /\ \A i \in 1..Len(top_k) : top_k[i] # Placeholder /\ top_k[i] \in Inserted
        /\ \A i, j \in 1..Len(top_k) : i # j => top_k[i] # top_k[j]
        /\ (AllSentences = {} => top_k = << >>)

\* What C3 says of the runs that return (the runs stopped by the index error
\* of C2 left aside).
TopKSizeWhenReturned ==
    Returned =>
        /\ Len(top_k) = Min(k, Cardinality(AllSentences))
        /\ \A i \in 1..Len(top_k) : top_k[i] # Placeholder /\ top_k[i] \in Inserted
        /\ \A i, j \in 1..Len(top_k) : i # j => top_k[i] # top_k[j]

\* C8: a failed fetch leaves the page without content and raises nothing, the
\* url adds no item to the ranking, and the sentences of every other url are
\* scored and ranked; with no content at all the result is the empty list.
C8_FetchFailureSkipped ==
    /\ \A u \in DOMAIN pages :
         FetchFailed(fetched[u]) => pages[u].content = "None"
    /\ \A s \in Inserted : ~FetchFailed(fetched[s.url])
    /\ Ended =>
         /\ Returned
         /\ {<<s.url, s.position>> : s \in Inserted} = AllSentences
         /\ Len(top_k) = Min(k, Cardinality(AllSentences))
         /\ Range(top_k) \subseteq Inserted

\* What C8 says of the runs that return.
FetchFailureSkippedWhenReturned ==
    /\ \A u \in DOMAIN pages :
         FetchFailed(fetched[u]) => pages[u].content = "None"
    /\ \A s \in Inserted : ~FetchFailed(fetched[s.url])
    /\ Returned =>
         /\ {<<s.url, s.position>> : s \in Inserted} = AllSentences
         /\ Len(top_k) = Min(k, Cardinality(AllSentences))
         /\ Range(top_k) \subseteq Inserted
    /\ pc = "error" => sent.score >= Unit /\ ~FetchFailed(fetched[sent.url])

(***************************************************************************)
(* Properties of the context window (SpecContext)                          *)
(***************************************************************************)
\* the positions a..b in document order
Positions(a, b) == [i \in 1..Max(0, b - a + 1) |-> a + i - 1]

\* C4: the context is built from the positions max(0, p-w) .. min(n-1, p+w):
\* min(w, p) sentences before p and min(w, n-1-p) sentences after it.
C4_ContextWindowClamped ==
    cpc = "returned" =>
        /\ cresult.text = cp
        /\ cresult.pre_context = Positions(Max(0, cp - cw), cp - 1)
        /\ cresult.post_context = Positions(cp + 1, Min(cn - 1, cp + cw))
        /\ Len(cresult.pre_context) = Min(cw, cp)
        /\ Len(cresult.post_context) = Min(cw, cn - 1 - cp)

\* What the code does hold to: the pre-context is as C4 says, and the
\* post-context stops one sentence short of the last.
ContextWindowAsCoded ==
    cpc = "returned" =>
        /\ cresult.pre_context = Positions(Max(0, cp - cw), cp - 1)
        /\ cresult.post_context = Positions(cp + 1, Min(cn - 2, cp + cw))

(***************************************************************************)
(* Properties of the keyword extraction (SpecKeywords)                     *)
(***************************************************************************)
Phrases == Range(gpt_keywords)

\* the least distance of an answer phrase to the query phrases
HasMin(ph) == Len(ph.dists) > 0
MinDist(ph) == CHOOSE d \in Range(ph.dists) : \A e \in Range(ph.dists) : d <= e
\* the first query phrase, left to right, at that distance
FirstAtMin(ph) ==
    CHOOSE i \in 1..Len(ph.dists) :
        /\ ph.dists[i] = MinDist(ph)
        /\ \A j \in 1..(i - 1) : ph.dists[j] # MinDist(ph)

ClaimRetains(ph) == HasMin(ph) /\ MinDist(ph) <= threshold

\* C5: an answer phrase is retained exactly when its least distance to the
\* query phrases is <= threshold, paired with the first query phrase at that
\* distance; without phrases the result is empty; nothing is raised.
C5_RetainedIffWithinThreshold ==
    /\ kpc # "error"
    /\ keywords = {<<query_keywords[FirstAtMin(ph)], ph.text>> :
                      ph \in {q \in Phrases : ClaimRetains(q)}}
    /\ (query_keywords = << >> \/ gpt_keywords = << >>) =>
          keywords = {} /\ gpt_keyword_sentence_mapping = << >>

\* What the code holds to for every threshold below 1.0.
RetainedIffWithinThresholdBelowOne ==
    threshold < InitialMaxSimilarity =>
        /\ kpc # "error"
        /\ keywords = {<<query_keywords[FirstAtMin(ph)], ph.text>> :
                          ph \in {q \in Phrases : ClaimRetains(q)}}

\* the occurrences the code has retained
CodeRetains(ph) == Closest(ph).max_similarity <= threshold /\ Closest(ph).most_similar # 0
RetainedAt == {i \in 1..Len(gpt_keywords) : CodeRetains(gpt_keywords[i])}

\* the smallest index (from 0) of a sentence whose end is >= the end of ph
FirstSentenceReaching(ph) ==
    CHOOSE i \in 0..(Len(gpt_sentences) - 1) :
        /\ gpt_sentences[i + 1] >= ph.end
        /\ \A j \in 0..(i - 1) : gpt_sentences[j + 1] < ph.end

\* C6 as claimed: the mapping holds every retained phrase, and its value is
\* the first sentence reaching the phrase's end for every retained occurrence.
C6_MappingForEveryOccurrence ==
    kpc = "done" =>
        \A i \in RetainedAt :
            /\ gpt_keywords[i].text \in DOMAIN gpt_keyword_sentence_mapping
            /\ gpt_keyword_sentence_mapping[gpt_keywords[i].text]
                 = FirstSentenceReaching(gpt_keywords[i])

LastRetainedAt(t) ==
    CHOOSE i \in RetainedAt :
        /\ gpt_keywords[i].text = t
        /\ \A j \in RetainedAt : gpt_keywords[j].text = t => j <= i

\* C6 amended: the mapping holds exactly the retained phrase texts, and the
\* value of a text is the first sentence reaching the end of its last
\* retained occurrence.
C6_MappingForLastOccurrence ==
    kpc = "done" =>
        /\ DOMAIN gpt_keyword_sentence_mapping = {gpt_keywords[i].text : i \in RetainedAt}
        /\ \A t \in DOMAIN gpt_keyword_sentence_mapping :
             gpt_keyword_sentence_mapping[t]
               = FirstSentenceReaching(gpt_keywords[LastRetainedAt(t)])

\* C6 witness: a text retained twice, in two sentences, whose second
\* occurrence starts in one sentence and ends in the next: it is mapped to
\* the later sentence, not to the sentence of its first occurrence.
C6_Witness ==
    /\ kpc = "done"
    /\ \E i, j \in RetainedAt : \E b \in 1..(Len(gpt_sentences) - 1) :
         /\ i < j
         /\ gpt_keywords[i].text = gpt_keywords[j].text
         /\ gpt_keywords[j].start < gpt_sentences[b]
         /\ gpt_sentences[b] < gpt_keywords[j].end
         /\ gpt_keyword_sentence_mapping[gpt_keywords[j].text] = b
         /\ FirstSentenceReaching(gpt_keywords[i]) < b

(***************************************************************************)
(* Properties of the mask (SpecMask)                                       *)
(***************************************************************************)
Rel == gpt_relevance_by_sentence
RelSum == SumSeq(Rel)
RelSumOfSquares == SumSeq([i \in 1..Len(Rel) |-> Rel[i] * Rel[i]])

\* x > mean + sqrt(sum (x_i - mean)^2 / divisor), in integers:
\* n*x > S and divisor * (n*x - S)^2 > n * (n * sum x_i^2 - S^2)
AboveMeanPlusStd(x, divisor) ==
    LET n == Len(Rel)
    IN /\ n * x > RelSum
       /\ divisor * (n * x - RelSum) * (n * x - RelSum)
            > n * (n * RelSumOfSquares - RelSum * RelSum)

\* C7 as claimed: sentence i is marked exactly when its score exceeds the
\* mean plus the population standard deviation (divisor n).
C7_MaskPopulationStd ==
    mpc = "masked" =>
        \A i \in 1..Len(Rel) :
            relevant_sentences[i] <=> AboveMeanPlusStd(Rel[i], Len(Rel))

\* C7 amended: sentence i is marked exactly when its score exceeds the mean
\* plus the sample standard deviation (divisor n - 1); with one sentence
\* nothing is marked; [1,2,3,4,100] gives [F,F,F,F,T].
C7_MaskSampleStd ==
    mpc = "masked" =>
        /\ Len(relevant_sentences) = Len(Rel)
        /\ \A i \in 1..Len(Rel) :
             relevant_sentences[i] <=>
                (Len(Rel) >= 2 /\ AboveMeanPlusStd(Rel[i], Len(Rel) - 1))
        /\ Rel = <<1, 2, 3, 4, 100>> =>
             relevant_sentences = <<FALSE, FALSE, FALSE, FALSE, TRUE>>

\* C7 witness: the mask of [1,2,3,4,100]
C7_Witness ==
    /\ mpc = "masked"
    /\ Rel = <<1, 2, 3, 4, 100>>
    /\ relevant_sentences = <<FALSE, FALSE, FALSE, FALSE, TRUE>>

(***************************************************************************)
(* Properties of fetch_urls (SpecUrls)                                     *)
(***************************************************************************)
\* the search queries whose results held url
Producers(url) == {q \in DOMAIN returned : url \in Range(returned[q])}

\* C9: when fetch_urls returns, self.urls has one key per url returned, and
\* the value of a url is the set of the search queries that returned it.
C9_UrlsMapToProducingQueries ==
    upc = "done" =>
        /\ DOMAIN urls = UNION {Range(returned[q]) : q \in DOMAIN returned}
        /\ \A u \in DOMAIN urls : urls[u] = Producers(u) /\ urls[u] # {}

\* C9 witness: a url returned by two queries, twice by one of them
C9_Witness ==
    /\ upc = "done"
    /\ \E u \in DOMAIN urls : \E q \in urls[u] :
         /\ Cardinality(urls[u]) >= 2
         /\ \E i, j \in 1..Len(returned[q]) :
              i # j /\ returned[q][i] = u /\ returned[q][j] = u

(***************************************************************************)
(* Properties of the sentence splitter (SpecSplit)                         *)
(***************************************************************************)
Titles == {<<"M", "r">>, <<"M", "r", "s">>, <<"M", "s">>, <<"D", "r">>, <<"S", "t">>}

\* the sentences of toks when the tokens at the positions ends end a sentence
RECURSIVE SentencesOf(_, _, _, _)
SentencesOf(toks, from, i, ends) ==
    IF i > Len(toks)
    THEN IF from > Len(toks) THEN << >> ELSE <<JoinTokens(toks, from, Len(toks))>>
    ELSE IF i \in ends THEN <<JoinTokens(toks, from, i)>> \o SentencesOf(toks, i + 1, i + 1, ends)
    ELSE SentencesOf(toks, from, i + 1, ends)

\* a true terminator: !, ?, or a period that is not the period of a title
TrueTerminator(i) ==
    \/ tokens[i].mark \in {"!", "?"}
    \/ tokens[i].mark = "." /\ tokens[i].word \notin Titles

\* C10: the period of a title does not split, every other ., ! and ? does;
\* "Dr. Smith went to Washington. He won." gives two sentences.
C10_SplitsAtTrueTerminators ==
    spc = "returned" => sentences = SentencesOf(tokens, 1, 1, {i \in 1..Len(tokens) : TrueTerminator(i)})

EndsWith(word, tail) ==
    Len(word) >= Len(tail) /\ SubSeq(word, Len(word) - Len(tail) + 1, Len(word)) = tail

IsSuffixWord(word) ==
    \E a \in Range(Suffixes) : Len(a) = Len(word) /\ AltMatches(word, 1, a)

\* the periods the code protects in a text without Inc, Ltd, Jr, Sr and Co:
\* after a word that ends in a title and after a word of one letter
CodeTerminator(i) ==
    \/ tokens[i].mark \in {"!", "?"}
    \/ /\ tokens[i].mark = "."
       /\ ~ \E t \in Titles : EndsWith(tokens[i].word, t)
       /\ Len(tokens[i].word) # 1

\* What the code holds to on the texts without Inc, Ltd, Jr, Sr and Co.
SplitsAsCoded ==
    (spc = "returned" /\ \A i \in 1..Len(tokens) : ~IsSuffixWord(tokens[i].word)) =>
        sentences = SentencesOf(tokens, 1, 1, {i \in 1..Len(tokens) : CodeTerminator(i)})

\* The sentence of the claim is split as the claim says.
ExampleSplit ==
    (spc = "returned" /\ tokens = ExampleTokens) =>
        sentences = << JoinTokens(tokens, 1, 5), JoinTokens(tokens, 6, 7) >>

(***************************************************************************)
(* Properties of the threads and jobs (SpecThreads)                        *)
(***************************************************************************)
UrlSet == Range(url_list)

\* every thread or job made for a url has run to its end
AllTasksDone == \A i \in DOMAIN tstate : tstate[i] = "done"

\* how often pages[url] = page has run for the url
StoresOf(url) == Cardinality({j \in 1..Len(stored) : stored[j] = url})

\* the Sentences of the url that the shared list holds
AppendedOf(url) == {j \in 1..Len(sentences_list) : sentences_list[j].url = url}

\* C11: under every interleaving of the per-url threads, once create_pages
\* has returned every thread has ended and self.pages holds exactly one Page
\* for each url of self.urls, the Page built for that url, stored once (no
\* update lost or made twice); top_k_similar_sentences reads self.pages, and
\* the sort of get_sentences_and_pages reads sentences_list, only when every
\* url's task has ended and everything the tasks made is in the collection.
C11_RankingAfterAllTasks ==
    /\ apc \in {"returned", "top_k"} =>
          /\ Len(threads) = Len(url_list)
          /\ AllTasksDone
          /\ DOMAIN self_pages = UrlSet
          /\ \A i \in DOMAIN url_list :
                /\ self_pages[url_list[i]] = local_page[i]
                /\ self_pages[url_list[i]].url = url_list[i]
                /\ StoresOf(url_list[i]) = 1
    /\ apc \in {"sort", "sorted"} =>
          /\ AllTasksDone
          /\ \A i \in DOMAIN url_list :
                /\ todo[i] = 0
                /\ Cardinality(AppendedOf(url_list[i])) = produced[i]

\* top_k_similar_sentences reads the pages of MaxThreads threads that stored
\* them in another order than they were started, one page without content
C11_Witness ==
    /\ apc = "top_k"
    /\ Len(url_list) = MaxThreads
    /\ stored[1] = url_list[MaxThreads]
    /\ \E u \in UrlSet : Truthy(self_pages[u].content)
    /\ \E u \in UrlSet : ~Truthy(self_pages[u].content)

\* the sort has read a list that two jobs appended to in another order than
\* they were dispatched
JobsWitness ==
    /\ apc = "sorted"
    /\ Len(sentences_list) >= 2
    /\ \E i, j \in DOMAIN url_list : i < j /\ produced[i] > 0 /\ produced[j] > 0
          /\ \E a, b \in DOMAIN sentences_list :
                a < b /\ sentences_list[a].url = url_list[j]
                      /\ sentences_list[b].url = url_list[i]
                      /\ sentences_list[a].relevance = sentences_list[b].relevance

====
